---- MODULE Spec2Model ----
(***************************************************************************)
(* State-machine model of the chatmate signaling server (src/server.js):   *)
(* the presence registry `users`, the room index `rooms`, the reverse      *)
(* index `userRooms`, the socket.io adapter's own room membership, the     *)
(* grace-delay timers, the periodic sweeper and the events each handler    *)
(* emits.  Every handler runs to completion (one Node.js event-loop turn), *)
(* so each handler is one action.                                          *)
(***************************************************************************)
EXTENDS Integers, Sequences, FiniteSets, TLC

(***************************************************************************)
(* Bounds of the model and constants of the program.                       *)
(***************************************************************************)
\* socket.io connection ids (socket.id); each connection is made once
Sockets == {"sockA1xx", "sockB2yy", "sockC3zz"}
\* user ids a client supplies in register-user ("" = none supplied)
UserIds == {"u1", "u2"}
NoId == ""
\* what the client behind each socket puts in userId when it registers,
\* in specification Spec
ClientIds(s) == {"u1", "u2"}
\* ... and in specifications SpecRelay and SpecLive
RelayIds(s) ==
  CASE s = "sockA1xx" -> {"u1"}
    [] s = "sockB2yy" -> {"u1", "u2"}
    [] s = "sockC3zz" -> {"u1", NoId}
\* the sockets that take part in specification Spec
RoomClients == {"sockA1xx", "sockB2yy"}
\* the name the client behind each socket supplies in register-user
\* ("" = none supplied, the server makes one up)
NoName == ""
ClientName(s) == IF s = "sockA1xx" THEN "Ann" ELSE NoName
\* at most this many uuidv4() calls in one behaviour
MaxUuid == 1
\* the clock is followed for this many sweeper periods, more than the
\* inactivity threshold (specifications SpecClock, SpecLive)
MaxLongSweeps == 6
\* the clock is followed for this many grace delays (specifications Spec,
\* SpecOwnRoom, SpecRelay, SpecHttp)
MaxTicks == 1
\* setTimeout delay of the disconnect handler, ms
GraceDelay == 5000
\* setInterval period of the sweeper, ms
SweepInterval == 60000
\* inactiveThreshold of the sweeper, ms
InactiveThreshold == 5 * 60 * 1000

\* the n-th value uuidv4() returns: fresh, never equal to a supplied id
Uuid(n) == "uuid-" \o ToString(n)
GeneratedIds == {Uuid(n) : n \in 1..MaxUuid}
AllIds == UserIds \cup GeneratedIds

\* `user_${user.id}`
PersonalRoom(id) == "user_" \o id
\* room ids a client names in join-room / leave-room
JoinRooms == {"lobby"}
\* ... and in specification SpecOwnRoom: the id of a socket, which is also
\* the name of the adapter room socket.io keeps for that socket
OwnRooms == {"sockB2yy"}
AllRooms == JoinRooms \cup Sockets \cup {PersonalRoom(i) : i \in AllIds}

\* socket.id.substring(0, 6)
Substring06(s) ==
  CASE s = "sockA1xx" -> "sockA1"
    [] s = "sockB2yy" -> "sockB2"
    [] s = "sockC3zz" -> "sockC3"

VARIABLES
  conn,       \* socket -> "idle" (not yet connected) | "open" | "closed"
  users,      \* Map socketId -> user, as the sequence of its values in insertion order
  rooms,      \* Map roomId -> Set of socketIds, as a function on its keys
  userRooms,  \* Map userId -> Set of roomIds; each Set as a sequence in insertion order
  joined,     \* socket.io adapter: the <<room, socket>> pairs (own-id room and socket.join)
  graceDue,   \* pending setTimeout callbacks of disconnect: socket -> due time
  nextSweep,  \* due time of the next setInterval tick
  now,        \* the clock (new Date()), ms
  uuidCount,  \* number of uuidv4() calls so far
  exceptBy,   \* whom socket.to() leaves out in the socket.io installed:
              \* "ids" | "rooms", "unseen" until an emit tells them apart
  out,        \* the events emitted by the last handler, in order
  last        \* the event the last handler served

vars == <<conn, users, rooms, userRooms, joined, graceDue, nextSweep, now,
          uuidCount, exceptBy, out, last>>

(***************************************************************************)
(* Map and Set helpers (JavaScript Map / Set semantics).                   *)
(***************************************************************************)
NoUser == [socketId |-> ""]

\* index of the entry keyed by socket s in `us`, 0 if none
IndexOf(us, s) ==
  IF \E i \in 1..Len(us) : us[i].socketId = s
  THEN CHOOSE i \in 1..Len(us) : us[i].socketId = s
  ELSE 0

\* users.get(socketId)
UsersGet(us, s) == IF IndexOf(us, s) = 0 THEN NoUser ELSE us[IndexOf(us, s)]

\* users.set(socketId, user): an existing key keeps its position
UsersSet(us, s, u) ==
  IF IndexOf(us, s) = 0 THEN Append(us, u)
  ELSE [us EXCEPT ![IndexOf(us, s)] = u]

\* users.delete(socketId)
UsersDelete(us, s) == SelectSeq(us, LAMBDA u : u.socketId # s)

\* Array.from(users.values()).find(u => u.id === id): first match in insertion order
FindById(us, id) ==
  IF \E i \in 1..Len(us) : us[i].id = id
  THEN us[CHOOSE i \in 1..Len(us) :
            /\ us[i].id = id
            /\ \A j \in 1..(i - 1) : us[j].id # id]
  ELSE NoUser

\* Array.from(users.values()).map(user => ({id, name, isOnline, lastSeen}))
Snapshot(us) ==
  [i \in 1..Len(us) |->
     [id |-> us[i].id, name |-> us[i].name,
      isOnline |-> us[i].isOnline, lastSeen |-> us[i].lastSeen]]

\* rooms.has / rooms.get(roomId) as a set (empty when the key is absent)
RoomsHas(rs, r) == r \in DOMAIN rs
Members(rs, r) == IF r \in DOMAIN rs THEN rs[r] ELSE {}

\* if (!rooms.has(r)) rooms.set(r, new Set()); rooms.get(r).add(s)
RoomsAdd(rs, r, s) ==
  [x \in DOMAIN rs \cup {r} |-> IF x = r THEN Members(rs, r) \cup {s} ELSE rs[x]]

\* RoomsRemove without the size === 0 check: an emptied room keeps its key
RoomsRemoveNoPrune(rs, r, s) ==
  IF ~RoomsHas(rs, r) THEN rs ELSE [rs EXCEPT ![r] = rs[r] \ {s}]

\* if (rooms.has(r)) { rooms.get(r).delete(s); if (size === 0) rooms.delete(r) }
RoomsRemove(rs, r, s) ==
  IF ~RoomsHas(rs, r) THEN rs
  ELSE IF rs[r] \ {s} = {}
       THEN [x \in DOMAIN rs \ {r} |-> rs[x]]
       ELSE [rs EXCEPT ![r] = rs[r] \ {s}]

SeqToSet(q) == {q[i] : i \in 1..Len(q)}
\* Set.add keeps insertion order and ignores a value already present
SetAdd(q, x) == IF x \in SeqToSet(q) THEN q ELSE Append(q, x)
\* Set.delete
SetDelete(q, x) == SelectSeq(q, LAMBDA y : y # x)

\* if (!userRooms.has(id)) userRooms.set(id, new Set()); userRooms.get(id).add(r)
UserRoomsAdd(ur, id, r) ==
  [x \in DOMAIN ur \cup {id} |->
     IF x = id THEN SetAdd(IF id \in DOMAIN ur THEN ur[id] ELSE <<>>, r)
     ELSE ur[x]]

\* userRooms.delete(id)
UserRoomsDelete(ur, id) == [x \in DOMAIN ur \ {id} |-> ur[x]]

\* the rooms listed for id (empty when the key is absent)
RoomsOf(ur, id) == IF id \in DOMAIN ur THEN SeqToSet(ur[id]) ELSE {}

(***************************************************************************)
(* The transport (socket.io): who receives an emitted event.               *)
(***************************************************************************)
OpenSockets == {s \in Sockets : conn[s] = "open"}
\* io.emit: every connected socket
ToAll(cn) == {s \in Sockets : cn[s] = "open"}
\* io.to(socketId): the adapter's members of the room named by the socket id;
\* the socket itself unless it left that room, and whoever else joined it
ToSocket(jn, s) == {x \in Sockets : <<s, x>> \in jn}

(***************************************************************************)
(* socket.to(roomId): the adapter's members of the room, except the        *)
(* sender.  The source requires 'socket.io' without a version, and the     *)
(* releases differ in whom they leave out: up to 3.x the socket whose id   *)
(* is the sender's ("ids"), from 4.0 every socket in the adapter room      *)
(* named by the sender's id ("rooms").  The two agree unless another       *)
(* socket has joined the room named by the sender's id or the sender has   *)
(* left it.  One server runs one release: exceptBy stays "unseen" while    *)
(* the emits so far do not tell the two apart, and keeps the reading of    *)
(* the first emit that does.                                               *)
(***************************************************************************)
Readings == {"ids", "rooms"}

ToRoomExcept(b, jn, r, s) ==
  IF b = "rooms"
  THEN {x \in Sockets : <<r, x>> \in jn /\ <<s, x>> \notin jn}
  ELSE {x \in Sockets : <<r, x>> \in jn} \ {s}

\* the readings the emits so far leave possible
Candidates == IF exceptBy = "unseen" THEN Readings ELSE {exceptBy}

\* exceptBy after socket s has emitted to room r under reading b
Settled(b, jn, r, s) ==
  IF ToRoomExcept("ids", jn, r, s) # ToRoomExcept("rooms", jn, r, s)
  THEN b ELSE exceptBy

Event(to, ev, data) == [to |-> to, ev |-> ev, data |-> data]

(***************************************************************************)
(* Initial state: the server has started; nobody has connected.            *)
(***************************************************************************)
Init ==
  /\ conn = [s \in Sockets |-> "idle"]
  /\ users = <<>>
  /\ rooms = <<>>
  /\ userRooms = <<>>
  /\ joined = {}
  /\ graceDue = <<>>
  /\ nextSweep = SweepInterval
  /\ now = 0
  /\ uuidCount = 0
  /\ exceptBy = "unseen"
  /\ out = <<>>
  /\ last = [op |-> "start"]

(***************************************************************************)
(* app.get('/health') and app.get('/users'): the response goes to the HTTP *)
(* client, which is no socket.                                             *)
(***************************************************************************)
GetHealth ==
  /\ out' = <<Event({}, "GET /health",
                    [status |-> "ok", users |-> Len(users),
                     rooms |-> Cardinality(DOMAIN rooms), timestamp |-> now])>>
  /\ last' = [op |-> "GET /health"]
  /\ UNCHANGED <<exceptBy, conn, users, rooms, userRooms, joined, graceDue, nextSweep,
                 now, uuidCount>>

\* Array.from(users.values()).map(user => ({id, name, isOnline: true, lastSeen}))
GetUsers ==
  /\ out' = <<Event({}, "GET /users",
                    [i \in 1..Len(users) |->
                       [id |-> users[i].id, name |-> users[i].name,
                        isOnline |-> TRUE, lastSeen |-> users[i].lastSeen]])>>
  /\ last' = [op |-> "GET /users"]
  /\ UNCHANGED <<exceptBy, conn, users, rooms, userRooms, joined, graceDue, nextSweep,
                 now, uuidCount>>

(***************************************************************************)
(* io.on('connection'): socket.io has put the new socket in the adapter     *)
(* room named by its own id; it is sent the current user list.             *)
(***************************************************************************)
Connect(c) ==
  /\ conn[c] = "idle"
  /\ conn' = [conn EXCEPT ![c] = "open"]
  /\ joined' = joined \cup {<<c, c>>}
  /\ out' = <<Event({c}, "user-list", Snapshot(users))>>
  /\ last' = [op |-> "connection", sock |-> c]
  /\ UNCHANGED <<exceptBy, users, rooms, userRooms, graceDue, nextSweep, now, uuidCount>>

(***************************************************************************)
(* socket.on('register-user')                                              *)
(***************************************************************************)
RegisterUser(c, userId, name) ==
  /\ conn[c] = "open"
  /\ userId = NoId => uuidCount < MaxUuid
  /\ LET user == [id |-> IF userId # NoId THEN userId ELSE Uuid(uuidCount + 1),
                  name |-> IF name # NoName THEN name
                           ELSE "User_" \o Substring06(c),
                  socketId |-> c,
                  lastSeen |-> now,
                  isOnline |-> TRUE]
         personalRoom == PersonalRoom(user.id)
     IN /\ users' = UsersSet(users, c, user)
        /\ joined' = joined \cup {<<personalRoom, c>>}
        /\ rooms' = RoomsAdd(rooms, personalRoom, c)
        /\ userRooms' = UserRoomsAdd(userRooms, user.id, personalRoom)
        /\ uuidCount' = IF userId # NoId THEN uuidCount ELSE uuidCount + 1
        /\ out' = <<Event({c}, "user-registered",
                          [userId |-> user.id, name |-> user.name,
                           personalRoom |-> personalRoom]),
                    Event(ToAll(conn), "user-list", Snapshot(users'))>>
        /\ last' = [op |-> "register-user", sock |-> c, id |-> user.id]
  /\ UNCHANGED <<exceptBy, conn, graceDue, nextSweep, now>>

(***************************************************************************)
(* socket.on('join-room'); the client passes an acknowledgment callback.   *)
(***************************************************************************)
\* JoinRoom that notifies the room only on a first join
JoinRoomSilent(c, roomId) ==
  /\ conn[c] = "open"
  /\ \E b \in Candidates :
     LET user == UsersGet(users, c)
     IN /\ joined' = joined \cup {<<roomId, c>>}
        /\ rooms' = RoomsAdd(rooms, roomId, c)
        /\ userRooms' = IF user # NoUser
                        THEN UserRoomsAdd(userRooms, user.id, roomId)
                        ELSE userRooms
        /\ out' = <<Event({c}, "ack", [success |-> TRUE, roomId |-> roomId])>>
                  \o IF c \in Members(rooms, roomId) THEN <<>>
                     ELSE <<Event(ToRoomExcept(b, joined', roomId, c), "user-joined-room",
                                  IF user # NoUser
                                  THEN [userId |-> user.id, userName |-> user.name,
                                        roomId |-> roomId]
                                  ELSE [roomId |-> roomId])>>
        /\ exceptBy' = Settled(b, joined', roomId, c)
        /\ last' = [op |-> "join-room", sock |-> c, roomId |-> roomId,
                    wasMember |-> c \in Members(rooms, roomId)]
  /\ UNCHANGED <<conn, users, graceDue, nextSweep, now, uuidCount>>

JoinRoom(c, roomId) ==
  /\ conn[c] = "open"
  /\ \E b \in Candidates :
     LET user == UsersGet(users, c)
     IN /\ joined' = joined \cup {<<roomId, c>>}
        /\ rooms' = RoomsAdd(rooms, roomId, c)
        /\ userRooms' = IF user # NoUser
                        THEN UserRoomsAdd(userRooms, user.id, roomId)
                        ELSE userRooms
        /\ out' = <<Event({c}, "ack", [success |-> TRUE, roomId |-> roomId]),
                    Event(ToRoomExcept(b, joined', roomId, c), "user-joined-room",
                          IF user # NoUser
                          THEN [userId |-> user.id, userName |-> user.name,
                                roomId |-> roomId]
                          ELSE [roomId |-> roomId])>>
        /\ exceptBy' = Settled(b, joined', roomId, c)
        /\ last' = [op |-> "join-room", sock |-> c, roomId |-> roomId,
                    wasMember |-> c \in Members(rooms, roomId)]
  /\ UNCHANGED <<conn, users, graceDue, nextSweep, now, uuidCount>>

(***************************************************************************)
(* socket.on('leave-room'); the client passes an acknowledgment callback.  *)
(***************************************************************************)
LeaveRoom(c, roomId) ==
  /\ conn[c] = "open"
  /\ \E b \in Candidates :
     LET user == UsersGet(users, c)
     IN /\ joined' = joined \ {<<roomId, c>>}
        /\ rooms' = RoomsRemove(rooms, roomId, c)
        /\ userRooms' = IF user # NoUser /\ user.id \in DOMAIN userRooms
                        THEN [userRooms EXCEPT
                                ![user.id] = SetDelete(userRooms[user.id], roomId)]
                        ELSE userRooms
        /\ out' = <<Event({c}, "ack", [success |-> TRUE]),
                    Event(ToRoomExcept(b, joined', roomId, c), "user-left-room",
                          IF user # NoUser
                          THEN [userId |-> user.id, userName |-> user.name,
                                roomId |-> roomId]
                          ELSE [roomId |-> roomId])>>
        /\ exceptBy' = Settled(b, joined', roomId, c)
        /\ last' = [op |-> "leave-room", sock |-> c, roomId |-> roomId,
                    wasMember |-> c \in Members(rooms, roomId)]
  /\ UNCHANGED <<conn, users, graceDue, nextSweep, now, uuidCount>>

(***************************************************************************)
(* socket.on('signal'): signalData = {to, type}                            *)
(***************************************************************************)
\* Signal that answers a sender without a registry entry with a signal-error
SignalAnswersUnregistered(c, to, type) ==
  /\ conn[c] = "open"
  /\ LET user == UsersGet(users, c)
         signalData == [to |-> to, type |-> type]
         targetUser == FindById(users, to)
     IN out' = IF user # NoUser /\ targetUser # NoUser
               THEN <<Event(ToSocket(joined, targetUser.socketId), "signal",
                            [to |-> to, type |-> type, from |-> user.id,
                             fromName |-> user.name, timestamp |-> now])>>
               ELSE <<Event({c}, "signal-error",
                            [error |-> "User not found or offline",
                             targetUserId |-> to,
                             originalSignal |-> signalData])>>
  /\ last' = [op |-> "signal", sock |-> c, to |-> to]
  /\ UNCHANGED <<exceptBy, conn, users, rooms, userRooms, joined, graceDue, nextSweep,
                 now, uuidCount>>

Signal(c, to, type) ==
  /\ conn[c] = "open"
  /\ LET user == UsersGet(users, c)
         signalData == [to |-> to, type |-> type]
         targetUser == FindById(users, to)
     IN out' = IF user = NoUser THEN <<>>
               ELSE IF targetUser # NoUser
               THEN <<Event(ToSocket(joined, targetUser.socketId), "signal",
                            [to |-> to, type |-> type, from |-> user.id,
                             fromName |-> user.name, timestamp |-> now])>>
               ELSE <<Event({c}, "signal-error",
                            [error |-> "User not found or offline",
                             targetUserId |-> to,
                             originalSignal |-> signalData])>>
  /\ last' = [op |-> "signal", sock |-> c, to |-> to]
  /\ UNCHANGED <<exceptBy, conn, users, rooms, userRooms, joined, graceDue, nextSweep,
                 now, uuidCount>>

(***************************************************************************)
(* socket.on('chat-message'): messageData = {recipientId, content}         *)
(***************************************************************************)
ChatMessage(c, recipientId, content) ==
  /\ conn[c] = "open"
  /\ LET user == UsersGet(users, c)
         targetUser == FindById(users, recipientId)
         message == [id |-> Uuid(uuidCount + 1),
                     senderId |-> user.id,
                     senderName |-> user.name,
                     recipientId |-> recipientId,
                     content |-> content,
                     timestamp |-> now,
                     type |-> "text",
                     deliveryStatus |-> "sent"]
     IN IF user = NoUser
        THEN /\ out' = <<>>
             /\ uuidCount' = uuidCount
        ELSE /\ uuidCount < MaxUuid
             /\ uuidCount' = uuidCount + 1
             /\ out' = IF targetUser # NoUser
                       THEN <<Event(ToSocket(joined, targetUser.socketId),
                                    "chat-message", message),
                              Event({c}, "message-delivered",
                                    [messageId |-> message.id,
                                     deliveredTo |-> targetUser.id,
                                     timestamp |-> now])>>
                       ELSE <<Event({c}, "message-offline",
                                    [messageId |-> message.id,
                                     recipientId |-> recipientId,
                                     timestamp |-> now])>>
  /\ last' = [op |-> "chat-message", sock |-> c, to |-> recipientId]
  /\ UNCHANGED <<exceptBy, conn, users, rooms, userRooms, joined, graceDue, nextSweep, now>>

(***************************************************************************)
(* socket.on('typing'): typingData = {recipientId, isTyping}               *)
(***************************************************************************)
\* Typing that tells the sender when the recipient is not found
TypingAnswersUnresolved(c, recipientId, isTyping) ==
  /\ conn[c] = "open"
  /\ LET user == UsersGet(users, c)
         targetUser == FindById(users, recipientId)
     IN out' = IF user = NoUser THEN <<>>
               ELSE IF targetUser = NoUser
               THEN <<Event({c}, "typing-error", [recipientId |-> recipientId])>>
               ELSE <<Event(ToSocket(joined, targetUser.socketId), "typing",
                            [userId |-> user.id, userName |-> user.name,
                             isTyping |-> isTyping, timestamp |-> now])>>
  /\ last' = [op |-> "typing", sock |-> c, to |-> recipientId]
  /\ UNCHANGED <<exceptBy, conn, users, rooms, userRooms, joined, graceDue, nextSweep,
                 now, uuidCount>>

Typing(c, recipientId, isTyping) ==
  /\ conn[c] = "open"
  /\ LET user == UsersGet(users, c)
         targetUser == FindById(users, recipientId)
     IN out' = IF user = NoUser \/ targetUser = NoUser THEN <<>>
               ELSE <<Event(ToSocket(joined, targetUser.socketId), "typing",
                            [userId |-> user.id, userName |-> user.name,
                             isTyping |-> isTyping, timestamp |-> now])>>
  /\ last' = [op |-> "typing", sock |-> c, to |-> recipientId]
  /\ UNCHANGED <<exceptBy, conn, users, rooms, userRooms, joined, graceDue, nextSweep,
                 now, uuidCount>>

(***************************************************************************)
(* socket.on('disconnect').  socket.io has already taken the socket out of *)
(* every adapter room when the handler runs.                               *)
(***************************************************************************)
\* CleanRooms that stops after the first room of the loop
CleanRoomsFirst(rs, q, k, c) ==
  IF k = 0 THEN rs ELSE RoomsRemove(rs, q[1], c)

\* the for-loop over userRooms.get(user.id): rooms after cleaning the first k rooms
RECURSIVE CleanRooms(_, _, _, _)
CleanRooms(rs, q, k, c) ==
  IF k = 0 THEN rs ELSE RoomsRemove(CleanRooms(rs, q, k - 1, c), q[k], c)

\* the user-left-room notifications of that loop, in iteration order
LeftEvents(b, jn, q, user, c) ==
  [k \in 1..Len(q) |->
     Event(ToRoomExcept(b, jn, q[k], c), "user-left-room",
           [userId |-> user.id, userName |-> user.name, roomId |-> q[k]])]

Disconnect(c) ==
  /\ conn[c] = "open"
  /\ conn' = [conn EXCEPT ![c] = "closed"]
  /\ joined' = {p \in joined : p[2] # c}
  /\ LET user == UsersGet(users, c)
         q == IF user # NoUser /\ user.id \in DOMAIN userRooms
              THEN userRooms[user.id] ELSE <<>>
     IN IF user # NoUser
        THEN /\ users' = UsersSet(users, c,
                            [user EXCEPT !.isOnline = FALSE, !.lastSeen = now])
             /\ rooms' = CleanRooms(rooms, q, Len(q), c)
             /\ userRooms' = UserRoomsDelete(userRooms, user.id)
             /\ \E b \in Candidates :
                  /\ out' = LeftEvents(b, joined', q, user, c)
                  /\ exceptBy' =
                       IF \E k \in 1..Len(q) : Settled(b, joined', q[k], c) # exceptBy
                       THEN b ELSE exceptBy
             /\ graceDue' = [x \in DOMAIN graceDue \cup {c} |->
                               IF x = c THEN now + GraceDelay ELSE graceDue[x]]
        ELSE /\ out' = <<>>
             /\ UNCHANGED <<users, rooms, userRooms, graceDue, exceptBy>>
  /\ last' = [op |-> "disconnect", sock |-> c]
  /\ UNCHANGED <<nextSweep, now, uuidCount>>

(***************************************************************************)
(* The setTimeout callback of the disconnect handler.                      *)
(***************************************************************************)
\* the due times of the pending timers
Deadlines == {graceDue[s] : s \in DOMAIN graceDue} \cup {nextSweep}
NextDeadline == CHOOSE d \in Deadlines : \A e \in Deadlines : d <= e

(***************************************************************************)
(* The order of overdue callbacks.  Node keeps one list of timers per      *)
(* delay: the setTimeout(..., 5000) timers of the disconnect handler wait  *)
(* in one list in the order they were set, the setInterval(..., 60000)     *)
(* timer in another.  The list whose first timer is due earliest is served *)
(* first, and once a list is being served every due timer of it runs       *)
(* before the other list gets its turn.                                    *)
(***************************************************************************)
\* the last step ran a grace timer: the 5000 ms list is being served
InGraceList == last.op = "grace-timer"

\* the grace timer of socket c is due and is the callback Node may run now
GraceTurn(c) ==
  /\ c \in DOMAIN graceDue
  /\ now >= graceDue[c]
  /\ \A x \in DOMAIN graceDue : graceDue[c] <= graceDue[x]
  /\ \/ now < nextSweep
     \/ graceDue[c] <= nextSweep
     \/ InGraceList

\* the sweeper is due and is the callback Node may run now
SweepTurn ==
  /\ now >= nextSweep
  /\ \A x \in DOMAIN graceDue :
       \/ graceDue[x] > now
       \/ nextSweep <= graceDue[x] /\ ~InGraceList

\* broadcastUserList()
BroadcastUserList(cn, us) == Event(ToAll(cn), "user-list", Snapshot(us))

\* GraceTimer that broadcasts before it deletes
GraceTimerBroadcastFirst(c) ==
  /\ GraceTurn(c)
  /\ users' = UsersDelete(users, c)
  /\ graceDue' = [x \in DOMAIN graceDue \ {c} |-> graceDue[x]]
  /\ out' = <<BroadcastUserList(conn, users)>>
  /\ last' = [op |-> "grace-timer", sock |-> c, gone |-> UsersGet(users, c)]
  /\ UNCHANGED <<exceptBy, conn, rooms, userRooms, joined, nextSweep, now, uuidCount>>

\* GraceTimer that deletes by user id rather than by socket id
GraceTimerById(c) ==
  /\ GraceTurn(c)
  /\ users' = SelectSeq(users, LAMBDA u : u.id # UsersGet(users, c).id)
  /\ graceDue' = [x \in DOMAIN graceDue \ {c} |-> graceDue[x]]
  /\ out' = <<BroadcastUserList(conn, users')>>
  /\ last' = [op |-> "grace-timer", sock |-> c, gone |-> UsersGet(users, c)]
  /\ UNCHANGED <<exceptBy, conn, rooms, userRooms, joined, nextSweep, now, uuidCount>>

GraceTimer(c) ==
  /\ GraceTurn(c)
  /\ users' = UsersDelete(users, c)
  /\ graceDue' = [x \in DOMAIN graceDue \ {c} |-> graceDue[x]]
  /\ out' = <<BroadcastUserList(conn, users')>>
  /\ last' = [op |-> "grace-timer", sock |-> c, gone |-> UsersGet(users, c)]
  /\ UNCHANGED <<exceptBy, conn, rooms, userRooms, joined, nextSweep, now, uuidCount>>

(***************************************************************************)
(* The setInterval callback (the sweeper).                                 *)
(***************************************************************************)
\* Inactive without the threshold: every offline entry counts as stale
InactiveAnyAge(u, t) == ~u.isOnline

\* Inactive with >= for >: an entry exactly at the threshold counts as stale
InactiveOrEqual(u, t) == ~u.isOnline /\ (t - u.lastSeen) >= InactiveThreshold

Inactive(u, t) == ~u.isOnline /\ (t - u.lastSeen) > InactiveThreshold

Sweeper ==
  /\ SweepTurn
  /\ nextSweep' = now + SweepInterval
  /\ users' = SelectSeq(users, LAMBDA u : ~Inactive(u, now))
  /\ userRooms' = [x \in DOMAIN userRooms \
                            {users[i].id : i \in {j \in 1..Len(users) :
                                                    Inactive(users[j], now)}}
                     |-> userRooms[x]]
  /\ out' = <<>>
  /\ last' = [op |-> "sweeper",
              removed |-> {users[i].socketId : i \in {j \in 1..Len(users) :
                                                        Inactive(users[j], now)}}]
  /\ UNCHANGED <<exceptBy, conn, rooms, joined, graceDue, now, uuidCount>>

(***************************************************************************)
(* Time passes.  With an idle event loop the clock reaches the next        *)
(* deadline and the callback runs on time, or it reaches an instant before *)
(* the next deadline at which a client event is served.  When the loop is  *)
(* busy or the process is held the clock goes past a deadline before any   *)
(* callback runs, and the overdue callbacks then run in Node's order.      *)
(* The clock is followed up to `limit`, and past it for as long as a grace *)
(* timer is pending, so that every timer a disconnect sets comes due.      *)
(***************************************************************************)
\* for how long the process is held, ms
StallSizes == {InactiveThreshold, InactiveThreshold + 1}

\* how long before the sweeper's tick the clients' events are served, ms
IdleOffsets == {6000, 3500}

Advance(limit) ==
  /\ \E t \in {NextDeadline} \cup {now + d : d \in StallSizes}
                             \cup {nextSweep - o : o \in IdleOffsets} :
       /\ now < t
       /\ \/ t = NextDeadline /\ (t <= limit \/ DOMAIN graceDue # {})
          \/ t > NextDeadline /\ t <= limit /\ t \in {now + d : d \in StallSizes}
          \/ t < NextDeadline /\ t <= limit
                              /\ t \in {nextSweep - o : o \in IdleOffsets}
       /\ now' = t
  /\ out' = <<>>
  /\ last' = [op |-> "time"]
  /\ UNCHANGED <<exceptBy, conn, users, rooms, userRooms, joined, graceDue, nextSweep,
                 uuidCount>>

(***************************************************************************)
(* Spec: presence and room membership.  Two clients connect, register,     *)
(* join and leave rooms and disconnect; the grace timers run when due.     *)
(* The clock is followed for less than a sweeper period, so the sweeper    *)
(* never comes due here; SpecClock and SpecLive follow it further.         *)
(***************************************************************************)
Next ==
  \/ \E c \in RoomClients : Connect(c)
  \/ \E c \in RoomClients : \E u \in ClientIds(c) : RegisterUser(c, u, ClientName(c))
  \/ \E c \in RoomClients, r \in JoinRooms : JoinRoom(c, r)
  \/ \E c \in RoomClients, r \in JoinRooms : LeaveRoom(c, r)
  \/ \E c \in RoomClients : Disconnect(c)
  \/ \E c \in RoomClients : GraceTimer(c)
  \/ Advance(MaxTicks * GraceDelay)

Spec == Init /\ [][Next]_vars

(***************************************************************************)
(* SpecOwnRoom: as Spec, but the room the clients name in join-room and    *)
(* leave-room is the id of a socket, a client may also leave the room      *)
(* named by its own socket id, and the clients send typing events.         *)
(***************************************************************************)
NextOwnRoom ==
  \/ \E c \in RoomClients : Connect(c)
  \/ \E c \in RoomClients : \E u \in ClientIds(c) : RegisterUser(c, u, ClientName(c))
  \/ \E c \in RoomClients, r \in OwnRooms : JoinRoom(c, r)
  \/ \E c \in RoomClients : \E r \in OwnRooms \cup {c} : LeaveRoom(c, r)
  \/ \E c \in RoomClients, t \in UserIds : Typing(c, t, TRUE)
  \/ \E c \in RoomClients : Disconnect(c)
  \/ \E c \in RoomClients : GraceTimer(c)
  \/ Advance(MaxTicks * GraceDelay)

SpecOwnRoom == Init /\ [][NextOwnRoom]_vars

(***************************************************************************)
(* SpecRelay: presence and message relay.  Three clients connect,          *)
(* register, send signal, chat-message and typing events and disconnect;   *)
(* the grace timers run when due.  The clock is followed for less than a   *)
(* sweeper period, so the sweeper never comes due here.                    *)
(***************************************************************************)
NextRelay ==
  \/ \E c \in Sockets : Connect(c)
  \/ \E c \in Sockets : \E u \in RelayIds(c) : RegisterUser(c, u, ClientName(c))
  \/ \E c \in Sockets, t \in UserIds : Signal(c, t, "offer")
  \/ \E c \in Sockets, t \in UserIds : ChatMessage(c, t, "hi")
  \/ \E c \in Sockets, t \in UserIds : Typing(c, t, TRUE)
  \/ \E c \in Sockets : Disconnect(c)
  \/ \E c \in Sockets : GraceTimer(c)
  \/ Advance(MaxTicks * GraceDelay)

SpecRelay == Init /\ [][NextRelay]_vars

(***************************************************************************)
(* SpecLive: presence under fair timers.  Node's event loop runs every     *)
(* timer callback that is due (weak fairness of the callbacks), and time   *)
(* passes (weak fairness of Advance).                                      *)
(***************************************************************************)
LiveLimit == MaxLongSweeps * SweepInterval

NextLive ==
  \/ \E c \in RoomClients : Connect(c)
  \/ \E c \in RoomClients : \E u \in RelayIds(c) : RegisterUser(c, u, ClientName(c))
  \/ \E c \in RoomClients : Disconnect(c)
  \/ \E c \in RoomClients : GraceTimer(c)
  \/ Sweeper
  \/ Advance(LiveLimit)

SpecLive ==
  /\ Init
  /\ [][NextLive]_vars
  /\ WF_vars(Advance(LiveLimit))
  /\ WF_vars(Sweeper)
  /\ \A c \in RoomClients : WF_vars(GraceTimer(c))

(***************************************************************************)
(* SpecHttp: presence with the two HTTP endpoints.  The clock is followed  *)
(* for less than a sweeper period.                                         *)
(***************************************************************************)
NextHttp ==
  \/ \E c \in RoomClients : Connect(c)
  \/ \E c \in RoomClients : \E u \in ClientIds(c) : RegisterUser(c, u, ClientName(c))
  \/ \E c \in RoomClients : Disconnect(c)
  \/ \E c \in RoomClients : GraceTimer(c)
  \/ Advance(MaxTicks * GraceDelay)
  \/ GetHealth
  \/ GetUsers

SpecHttp == Init /\ [][NextHttp]_vars

(***************************************************************************)
(* SpecClock: presence followed for longer than the inactivity threshold.  *)
(***************************************************************************)
NextClock ==
  \/ \E c \in RoomClients : Connect(c)
  \/ \E c \in RoomClients : \E u \in ClientIds(c) : RegisterUser(c, u, ClientName(c))
  \/ \E c \in RoomClients : Disconnect(c)
  \/ \E c \in RoomClients : GraceTimer(c)
  \/ Sweeper
  \/ Advance(MaxLongSweeps * SweepInterval)

SpecClock == Init /\ [][NextClock]_vars

(***************************************************************************)
(* Reading the state for the claims.                                       *)
(***************************************************************************)
Entries == 1..Len(users)
\* the positions in `out` of the events named ev that socket s receives
Received(s, ev) == {k \in 1..Len(out) : out[k].ev = ev /\ s \in out[k].to}
\* the positions in `out` of the events named ev, whoever receives them
Emitted(ev) == {k \in 1..Len(out) : out[k].ev = ev}
\* the entries with id u that are online
OnlineEntries(u) == {i \in Entries : users[i].id = u /\ users[i].isOnline}
\* the sender of the last event has a registry entry
SenderRegistered == UsersGet(users, last.sock) # NoUser
\* ... and addressed the event to another user id than its own
SenderIsNotTarget == UsersGet(users, last.sock).id # last.to

----------------------------------------------------------------------------
\* C1. Registry uniqueness: in every reachable state `users` holds at most
\* one entry with isOnline = TRUE for any user id.
C1_RegistryUniqueness ==
  \A i, j \in Entries :
    (users[i].isOnline /\ users[j].isOnline /\ users[i].id = users[j].id) => i = j

\* C2. Room symmetry: for every room R and every connection c with a registry
\* entry for user id u, c is in rooms[R] iff R is in userRooms[u].
C2_RoomSymmetry ==
  \A i \in Entries : \A r \in AllRooms :
    users[i].socketId \in Members(rooms, r) <=> r \in RoomsOf(userRooms, users[i].id)

\* C3. Grace-window reconnect: when the grace timer of a disconnected
\* connection fires, every online entry with the same user id stays in
\* `users`; and every user-list snapshot a handler emits shows each id that
\* has an online entry as online.
C3_OnlineShown(us, o) ==
  \A k \in 1..Len(o) :
    o[k].ev = "user-list" =>
      \A i \in 1..Len(us) :
        us[i].isOnline =>
          \E m \in 1..Len(o[k].data) :
            o[k].data[m].id = us[i].id /\ o[k].data[m].isOnline

C3_FreshKept(c) ==
  \A i \in Entries :
    (/\ users[i].isOnline
     /\ UsersGet(users, c) # NoUser => users[i].id = UsersGet(users, c).id) =>
      \E j \in 1..Len(users') : users'[j] = users[i]

C3_GraceReconnect ==
  [][/\ C3_OnlineShown(users', out')
     /\ \A c \in Sockets : GraceTimer(c) => C3_FreshKept(c)]_vars

\* C3 witness: a grace timer has just fired for a connection whose user id
\* was registered again, on another connection, after the disconnect; the
\* new entry is there, online, and in the broadcast snapshot.
C3_Witness ==
  /\ last.op = "grace-timer"
  /\ last.gone # NoUser
  /\ \E i \in Entries :
       /\ users[i].id = last.gone.id
       /\ users[i].socketId # last.sock
       /\ users[i].isOnline
       /\ users[i].lastSeen > last.gone.lastSeen
       /\ \E k \in Emitted("user-list") :
            \E m \in 1..Len(out[k].data) :
              out[k].data[m].id = users[i].id /\ out[k].data[m].isOnline

\* C4. Signal to an unresolved target: after a signal from a registered
\* sender whose `to` id has no entry with isOnline = TRUE, the sender has
\* received exactly one signal-error carrying targetUserId and the original
\* signal, and no connection has received a signal event.
C4_SignalUnresolved ==
  (last.op = "signal" /\ SenderRegistered /\ OnlineEntries(last.to) = {}) =>
    /\ Cardinality(Received(last.sock, "signal-error")) = 1
    /\ \A k \in Received(last.sock, "signal-error") :
         /\ out[k].data.targetUserId = last.to
         /\ out[k].data.originalSignal.to = last.to
    /\ \A s \in Sockets : Received(s, "signal") = {}

\* C5. Chat to an unknown or offline recipient: after a chat-message from a
\* registered sender whose recipientId has no entry with isOnline = TRUE, the
\* sender has received exactly one message-offline {messageId, recipientId,
\* timestamp} and no message-delivered, and no chat-message envelope was sent.
C5_ChatOffline ==
  (last.op = "chat-message" /\ SenderRegistered /\ OnlineEntries(last.to) = {}) =>
    /\ Cardinality(Received(last.sock, "message-offline")) = 1
    /\ \A k \in Received(last.sock, "message-offline") :
         out[k].data.recipientId = last.to
    /\ Received(last.sock, "message-delivered") = {}
    /\ Emitted("chat-message") = {}

\* C6. Chat delivery happy path: after a chat-message from a registered
\* sender u1 to another user u2 that is online on one connection, that
\* connection has received exactly one chat-message envelope with
\* senderId = u1 and the content, the sender exactly one message-delivered
\* with the envelope's id and no message-offline or message-error, and no
\* third connection has received anything.
C6_ChatDelivered ==
  (last.op = "chat-message" /\ SenderRegistered /\ SenderIsNotTarget
     /\ Cardinality(OnlineEntries(last.to)) = 1) =>
    LET c1 == last.sock
        c2 == users[CHOOSE i \in OnlineEntries(last.to) : TRUE].socketId
    IN /\ Cardinality(Received(c2, "chat-message")) = 1
       /\ \A k \in Received(c2, "chat-message") :
            /\ out[k].data.senderId = UsersGet(users, c1).id
            /\ out[k].data.content = "hi"
            /\ Cardinality(Received(c1, "message-delivered")) = 1
            /\ \A d \in Received(c1, "message-delivered") :
                 out[d].data.messageId = out[k].data.id
       /\ Received(c1, "message-offline") = {}
       /\ Received(c1, "message-error") = {}
       /\ \A k \in 1..Len(out) : out[k].to \subseteq {c1, c2}

\* C7. Later registration supersedes: when connection c2 holds the most
\* recent registration of user id u (its entry is online and its lastSeen is
\* later than that of every other entry of u), a signal, chat-message or
\* typing event addressed to u by a registered sender (another user) is
\* delivered to c2 and to no other connection.
C7_Relayed == {k \in 1..Len(out) : out[k].ev = last.op}

C7_LaterSupersedes ==
  (last.op \in {"signal", "chat-message", "typing"} /\ SenderRegistered
     /\ SenderIsNotTarget) =>
    \A i \in OnlineEntries(last.to) :
      (/\ \E j \in Entries : j # i /\ users[j].id = last.to
       /\ \A j \in Entries :
            (j # i /\ users[j].id = last.to) => users[j].lastSeen < users[i].lastSeen)
      => /\ C7_Relayed # {}
         /\ \A k \in C7_Relayed : out[k].to = {users[i].socketId}

\* C8 (as claimed). Redundant join is silent: after a join-room from a
\* connection that was already a member of the room, no connection has
\* received a user-joined-room notification.
C8_RedundantJoinSilent ==
  (last.op = "join-room" /\ last.wasMember) =>
    \A s \in Sockets : Received(s, "user-joined-room") = {}

\* whom a notification of socket s to room r reaches, from the adapter's
\* rooms jn at the emit: the sockets in room r other than s when socket.to()
\* leaves out by socket id, the sockets in room r that are not in the room
\* named s when it leaves out by room
NotifiedBy(b, jn, r, s) ==
  IF b = "rooms"
  THEN {x \in Sockets : <<r, x>> \in jn} \ {x \in Sockets : <<s, x>> \in jn}
  ELSE {x \in Sockets : <<r, x>> \in jn /\ x # s}

\* C8 (amended). Redundant join notifies again: after a join-room from a
\* connection that was already a member of room R, the acknowledgment
\* reports success and one user-joined-room notification has gone to the
\* connections in the transport's room R, less whom socket.to() leaves out:
\* the sender (socket.io up to 3.x), or every connection in the room named
\* by the sender's connection id (socket.io 4.x).  Every recipient is
\* connected and in the transport's room R, and every other connected
\* member of rooms[R] that has not joined the room named by the sender's
\* connection id is a recipient under either release.
C8_RedundantJoinNotifies ==
  (last.op = "join-room" /\ last.wasMember) =>
    /\ Len(out) = 2
    /\ out[1] = Event({last.sock}, "ack", [success |-> TRUE, roomId |-> last.roomId])
    /\ out[2].ev = "user-joined-room"
    /\ out[2].data.roomId = last.roomId
    /\ \E b \in Readings :
         /\ exceptBy \in {"unseen", b}
         /\ out[2].to = NotifiedBy(b, joined, last.roomId, last.sock)
    /\ exceptBy = "unseen" =>
         NotifiedBy("ids", joined, last.roomId, last.sock)
           = NotifiedBy("rooms", joined, last.roomId, last.sock)
    /\ out[2].to \subseteq {s \in OpenSockets : <<last.roomId, s>> \in joined}
    /\ {s \in Members(rooms, last.roomId) \cap OpenSockets :
          s # last.sock /\ <<last.sock, s>> \notin joined} \subseteq out[2].to

\* C8 witness: a member of a room has joined it again and another member
\* has been notified.
C8_Witness ==
  /\ last.op = "join-room"
  /\ last.wasMember
  /\ \E s \in Sockets \ {last.sock} : Received(s, "user-joined-room") # {}

\* C9. Idempotence of join and leave: a join-room(R) right after the same
\* connection's join-room(R) changes neither `rooms` nor `userRooms`, and
\* likewise for leave-room(R); a leave-room(R) by a connection that is not a
\* member of R changes neither map and acknowledges {success: TRUE}.
C9_Idempotence ==
  [][\A c \in Sockets, r \in JoinRooms :
       /\ (last.op = "join-room" /\ last.sock = c /\ last.roomId = r /\ JoinRoom(c, r))
            => (rooms' = rooms /\ userRooms' = userRooms)
       /\ (last.op = "leave-room" /\ last.sock = c /\ last.roomId = r /\ LeaveRoom(c, r))
            => (rooms' = rooms /\ userRooms' = userRooms)
       /\ (LeaveRoom(c, r) /\ c \notin Members(rooms, r))
            => /\ rooms' = rooms
               /\ userRooms' = userRooms
               /\ out'[1] = Event({c}, "ack", [success |-> TRUE])]_vars

\* C10. Empty-room pruning: no key of `rooms` maps to an empty set, and the
\* connection that has just left a room is not among the room's members.
C10_NoEmptyRoom ==
  /\ \A r \in DOMAIN rooms : rooms[r] # {}
  /\ last.op = "leave-room" => last.sock \notin Members(rooms, last.roomId)

\* C10 witness: the last member of a room has left it and the room is no
\* longer a key of `rooms`.
C10_Witness ==
  /\ last.op = "leave-room"
  /\ last.wasMember
  /\ last.roomId \notin DOMAIN rooms

\* C11. Presence broadcast on every presence change: when a handler has
\* served register-user, or the disconnect of a connection that has a
\* registry entry, the events it emitted include a user-list sent to every
\* connected socket whose snapshot is the registry as the handler left it.
C11_PresenceBroadcast ==
  (last.op \in {"register-user", "disconnect"} /\ SenderRegistered) =>
    \E k \in Emitted("user-list") :
      /\ out[k].to = OpenSockets
      /\ out[k].data = Snapshot(users)

\* C12. Unregistered sender is dropped: a signal, chat-message or typing
\* event from a connection that has no registry entry emits no event to any
\* connection, the sender included, and leaves users, rooms and userRooms
\* as they were.
C12_UnregisteredDropped ==
  [][\A c \in Sockets, t \in UserIds :
       (/\ UsersGet(users, c) = NoUser
        /\ \/ Signal(c, t, "offer")
           \/ ChatMessage(c, t, "hi")
           \/ Typing(c, t, TRUE))
       => /\ out' = <<>>
          /\ users' = users
          /\ rooms' = rooms
          /\ userRooms' = userRooms]_vars

\* a relay event from an unregistered connection, addressed to a user id
\* that has an online entry, has been served and dropped
C12_Witness ==
  /\ last.op \in {"signal", "chat-message", "typing"}
  /\ ~SenderRegistered
  /\ OnlineEntries(last.to) # {}
  /\ out = <<>>

\* What a typing event from socket c to user id t emits: nothing when the
\* sender has no entry or t resolves to no entry, otherwise one typing event
\* {userId, userName, isTyping}, delivered to every socket in the adapter
\* room named by the socket id of the entry t resolves to and to no other.
\* In that room are connected sockets only: that socket, from its connection
\* until it disconnects or leaves the room of its own name, and the sockets
\* that joined a room of that name.
C13_TypingRelayed(c, t) ==
  LET user == UsersGet(users, c)
      targetUser == FindById(users, t)
  IN /\ users' = users
     /\ rooms' = rooms
     /\ userRooms' = userRooms
     /\ IF user = NoUser \/ targetUser = NoUser
        THEN out' = <<>>
        ELSE /\ Len(out') = 1
             /\ out'[1].ev = "typing"
             /\ out'[1].to = {x \in Sockets : <<targetUser.socketId, x>> \in joined}
             /\ out'[1].to \subseteq
                  OpenSockets \cap ({targetUser.socketId}
                                    \cup Members(rooms, targetUser.socketId))
             /\ Members(rooms, targetUser.socketId) \cap OpenSockets
                  \subseteq out'[1].to
             /\ out'[1].data.userId = user.id
             /\ out'[1].data.userName = user.name
             /\ out'[1].data.isTyping = TRUE

\* C13 as stated. Typing never produces feedback: a typing event emits as
\* C13_TypingRelayed says, changes no map, and no event of any kind reaches
\* the sender's connection.
C13_NoEventToSender ==
  [][\A c \in Sockets, t \in UserIds :
       Typing(c, t, TRUE) =>
         /\ C13_TypingRelayed(c, t)
         /\ \A k \in 1..Len(out') : c \notin out'[k].to]_vars

\* C13, amended. A typing event emits as C13_TypingRelayed says and changes
\* no map; an event reaches the sender's connection only when the sender is
\* in the adapter room of the resolved entry's socket id (the entry is the
\* sender's own, or the sender joined a room of that name), and it is then
\* that typing event.
C13_NoFeedback ==
  [][\A c \in Sockets, t \in UserIds :
       Typing(c, t, TRUE) =>
         /\ C13_TypingRelayed(c, t)
         /\ \A k \in 1..Len(out') :
              c \in out'[k].to =>
                /\ \/ FindById(users, t).socketId = c
                   \/ c \in Members(rooms, FindById(users, t).socketId)
                /\ out'[k].ev = "typing"]_vars

\* a typing event from a registered sender has been relayed to the open
\* connection of another user, and to nobody else
C13_Witness ==
  /\ last.op = "typing"
  /\ SenderRegistered
  /\ SenderIsNotTarget
  /\ Len(out) = 1
  /\ out[1].ev = "typing"
  /\ out[1].to = {FindById(users, last.to).socketId}
  /\ last.sock \notin out[1].to

\* the entries a sweeper run at the present clock finds offline with a
\* lastSeen more than the 5-minute threshold in the past
C14_Stale ==
  {i \in Entries : users[i].isOnline = FALSE
                   /\ users[i].lastSeen + 5 * 60 * 1000 < now}

\* C14. Sweeper threshold: a sweeper run removes from users exactly the
\* entries that are offline with lastSeen more than the threshold before the
\* run, and the userRooms entry of each removed entry's user id; every other
\* entry of users and of userRooms stays as it was.
C14_SweeperThreshold ==
  [][Sweeper =>
       /\ Len(users') = Len(users) - Cardinality(C14_Stale)
       /\ \A i \in C14_Stale : UsersGet(users', users[i].socketId) = NoUser
       /\ \A i \in Entries \ C14_Stale :
            UsersGet(users', users[i].socketId) = users[i]
       /\ DOMAIN userRooms' =
            DOMAIN userRooms \ {users[i].id : i \in C14_Stale}
       /\ \A x \in DOMAIN userRooms' : userRooms'[x] = userRooms[x]]_vars

\* a sweeper run has removed an entry and has kept an offline entry that
\* is within the threshold
C14_Witness ==
  /\ last.op = "sweeper"
  /\ last.removed # {}
  /\ \E i \in Entries : ~users[i].isOnline

\* What the disconnect of connection c does to the maps: with a registry
\* entry for user id u, the entry is marked offline with lastSeen set to the
\* present clock, c is in no room that userRooms listed for u, every other
\* room and entry is as before, and userRooms has no entry for u; one
\* user-left-room {userId, userName, roomId} is emitted per listed room.
\* The disconnect of a connection without an entry changes no map and emits
\* nothing.  told(r, k) says who receives the k-th event, that of room r.
C15_Cleanup(c, told(_, _)) ==
  LET user == UsersGet(users, c)
      q == IF user # NoUser /\ user.id \in DOMAIN userRooms
           THEN userRooms[user.id] ELSE <<>>
      listed == RoomsOf(userRooms, user.id)
  IN IF user = NoUser
     THEN /\ out' = <<>>
          /\ users' = users
          /\ rooms' = rooms
          /\ userRooms' = userRooms
     ELSE /\ UsersGet(users', c) =
               [user EXCEPT !.isOnline = FALSE, !.lastSeen = now]
          /\ \A s \in Sockets \ {c} :
               UsersGet(users', s) = UsersGet(users, s)
          /\ \A r \in listed : c \notin Members(rooms', r)
          /\ \A r \in AllRooms \ listed : Members(rooms', r) = Members(rooms, r)
          /\ Len(out') = Len(q)
          /\ \A k \in 1..Len(q) :
               /\ out'[k].ev = "user-left-room"
               /\ out'[k].data = [userId |-> user.id,
                                  userName |-> user.name,
                                  roomId |-> q[k]]
               /\ told(q[k], k)
               /\ c \notin out'[k].to
          /\ user.id \notin DOMAIN userRooms'

\* C15 as stated. Disconnect cleanup: the disconnect does to the maps what
\* C15_Cleanup says, and the user-left-room event of each room goes to the
\* room's remaining connected members.
C15_ToRemainingMembers ==
  [][\A c \in Sockets :
       Disconnect(c) =>
         C15_Cleanup(c, LAMBDA r, k :
                          out'[k].to = {s \in Members(rooms', r) : conn'[s] = "open"})]_vars

\* C15, amended. The disconnect does to the maps what C15_Cleanup says, and
\* the user-left-room event of each room R goes to the connections that are
\* in the transport's room R after c has been taken out of every transport
\* room, less whom socket.to() leaves out: nobody else (socket.io up to 3.x)
\* or every connection that joined the room named by c's connection id
\* (socket.io 4.x), the same release for every event.  Every recipient is
\* connected, and every remaining connected member of rooms[R] that has not
\* joined the room named by c's connection id is a recipient under either
\* release.
C15_DisconnectCleanup ==
  [][\A c \in Sockets :
       Disconnect(c) =>
         /\ \E b \in Readings :
              /\ exceptBy' \in {"unseen", b}
              /\ C15_Cleanup(c, LAMBDA r, k :
                                  out'[k].to = NotifiedBy(b, joined', r, c))
         /\ C15_Cleanup(c, LAMBDA r, k :
              /\ out'[k].to \subseteq {s \in Sockets : conn'[s] = "open"
                                                       /\ <<r, s>> \in joined'}
              /\ {s \in Members(rooms', r) :
                    conn'[s] = "open" /\ <<c, s>> \notin joined'}
                   \subseteq out'[k].to
              /\ exceptBy' = "unseen" =>
                   NotifiedBy("ids", joined', r, c)
                     = NotifiedBy("rooms", joined', r, c))]_vars

\* a registered connection that was in two rooms has disconnected, and a
\* member that stays has been told of it
C15_Witness ==
  /\ last.op = "disconnect"
  /\ SenderRegistered
  /\ ~UsersGet(users, last.sock).isOnline
  /\ UsersGet(users, last.sock).lastSeen = now
  /\ Len(out) = 2
  /\ \E k \in Emitted("user-left-room") : out[k].to # {}

\* the grace timer of socket c has just run: the entry of c is not in the
\* registry and the user-list the callback broadcast to every connected
\* socket is the registry without that entry
C16_DeletedAndBroadcast(c) ==
  /\ last.op = "grace-timer"
  /\ last.sock = c
  /\ UsersGet(users, c) = NoUser
  /\ Len(out) = 1
  /\ out[1].ev = "user-list"
  /\ out[1].to = OpenSockets
  /\ out[1].data = Snapshot(users)
  /\ last.gone # NoUser =>
       \A m \in 1..Len(out[1].data) :
         out[1].data[m] # [id |-> last.gone.id, name |-> last.gone.name,
                           isOnline |-> FALSE, lastSeen |-> last.gone.lastSeen]

\* the disconnect handler of a registered connection leaves its entry in
\* users, offline, and schedules the grace timer
C16_NotByHandler ==
  \A c \in Sockets :
    (Disconnect(c) /\ UsersGet(users, c) # NoUser) =>
      /\ UsersGet(users', c) # NoUser
      /\ ~UsersGet(users', c).isOnline
      /\ c \in DOMAIN graceDue'

\* C16 as stated, its first part. Deferred deletion: the entry of a
\* disconnected connection stays in users, offline, until its grace timer
\* fires.
C16_StaysUntilTimer ==
  \A c \in DOMAIN graceDue :
    UsersGet(users, c) # NoUser /\ ~UsersGet(users, c).isOnline

\* C16, amended. The disconnect handler leaves the entry in users, offline;
\* while the grace timer is pending the entry is removed by that timer only,
\* or by a sweeper run that comes more than the inactivity threshold after
\* the disconnect; with fair timers the grace timer runs, and then the entry
\* is not in users and the callback has broadcast a user-list without it.
C16_DeferredDeletion ==
  /\ [][C16_NotByHandler]_vars
  /\ [][\A c \in DOMAIN graceDue :
          (UsersGet(users, c) # NoUser /\ UsersGet(users', c) = NoUser) =>
            \/ GraceTimer(c)
            \/ Sweeper /\ UsersGet(users, c).lastSeen + InactiveThreshold < now]_vars
  /\ \A c \in RoomClients :
       (c \in DOMAIN graceDue) ~> C16_DeletedAndBroadcast(c)

\* the entry of a disconnected connection has been deleted by its grace
\* timer, 5000 ms after the disconnect, with a connection left to be told
C16_Witness ==
  /\ last.op = "grace-timer"
  /\ last.gone # NoUser
  /\ C16_DeletedAndBroadcast(last.sock)
  /\ now = last.gone.lastSeen + GraceDelay
  /\ out[1].to # {}

\* C17. The /users listing is a read-only projection that reports online
\* users: the response lists exactly the registry entries with
\* isOnline = TRUE, in registry order, and serving it changes none of users,
\* rooms and userRooms.
C17_UsersListing ==
  [][GetUsers =>
       /\ out'[1].data = Snapshot(SelectSeq(users, LAMBDA u : u.isOnline))
       /\ users' = users
       /\ rooms' = rooms
       /\ userRooms' = userRooms]_vars

\* C18. Rooms contain only live connections: every member of every set in
\* rooms is a connected socket.
C18_LiveMembers ==
  \A r \in DOMAIN rooms : \A s \in rooms[r] : conn[s] = "open"

\* every registry entry that is offline has a pending grace timer for its
\* connection id
C19_OfflineHasTimer ==
  \A i \in Entries :
    ~users[i].isOnline => users[i].socketId \in DOMAIN graceDue

\* C19 as stated. The sweeper never removes anything: every offline entry
\* has a pending grace timer, and no sweeper run changes users or userRooms.
C19_SweeperRemovesNothing ==
  /\ []C19_OfflineHasTimer
  /\ [][Sweeper => (users' = users /\ userRooms' = userRooms)]_vars

\* C19, amended. Every offline entry has a pending grace timer; a sweeper
\* run removes an entry only when that timer is overdue by more than the
\* inactivity threshold less the grace delay, drops from userRooms only the
\* ids of the entries it removes, and otherwise changes neither map.
C19_SweeperOnlyWhenLate ==
  /\ []C19_OfflineHasTimer
  /\ [][Sweeper =>
          /\ \A i \in Entries :
               UsersGet(users', users[i].socketId) = NoUser =>
                 /\ ~users[i].isOnline
                 /\ now > graceDue[users[i].socketId]
                          + (InactiveThreshold - GraceDelay)
          /\ \A x \in DOMAIN userRooms \ DOMAIN userRooms' :
               \E i \in Entries :
                 /\ users[i].id = x
                 /\ UsersGet(users', users[i].socketId) = NoUser
          /\ (\A i \in Entries : UsersGet(users', users[i].socketId) # NoUser)
               => (users' = users /\ userRooms' = userRooms)]_vars

\* a sweeper run that came late has removed the entry of a disconnected
\* connection whose grace timer has not run yet
C19_Witness ==
  /\ last.op = "sweeper"
  /\ \E c \in last.removed :
       /\ c \in DOMAIN graceDue
       /\ now > graceDue[c] + (InactiveThreshold - GraceDelay)
       /\ UsersGet(users, c) = NoUser

\* C20. At most one personal room: a connection is a member of the personal
\* room of a user id only if its registry entry has that id, and userRooms
\* has an entry only for the ids of registry entries.
C20_OnePersonalRoom ==
  /\ \A c \in Sockets : \A id \in AllIds :
       c \in Members(rooms, PersonalRoom(id)) => UsersGet(users, c).id = id
  /\ \A id \in DOMAIN userRooms : \E i \in Entries : users[i].id = id
====
